---- MODULE Spec2Model ----
(***************************************************************************)
(* Model of the agentic recruitment orchestrator:                          *)
(*   services/agents/agentic_orchestrator.py  (find_candidates loop)       *)
(*   services/agents/base_agent.py            (AgentState)                 *)
(*   services/agents/llm_routers/*.py         (decision backend, fallback) *)
(*   services/agents/tools/*.py               (the four capabilities)      *)
(***************************************************************************)
EXTENDS Integers, Sequences, FiniteSets, TLC

\* ---------------------------------------------------------------- bounds
MaxIter == 3        \* max_iterations is drawn from 0..MaxIter
MaxCand == 2        \* identity keys are 1..MaxCand
MaxMinCand == 1     \* min_candidates is drawn from 0..MaxMinCand
MaxDuration == 1    \* a capability reports a duration in 1..MaxDuration

StudentIds == 1..MaxCand

\* fit scores the ranking backend may return, and the thresholds of a run
FitScores == {3, 7}
MinFitScores == {5, 7}
\* durations a capability may report in ToolResult.execution_time
Durations == 1..MaxDuration

\* ---------------------------------------------------------------- values
\* a JSON value found under "fit_score": a number, null, or the key is missing
Num(n) == [kind |-> "num", val |-> n]
NoneValue == [kind |-> "None", val |-> 0]
Absent == [kind |-> "absent", val |-> 0]

VARIABLES
    pc,                   \* position of find_candidates
    candidates,           \* AgentState.candidates
    enriched_candidates,  \* AgentState.enriched_candidates
    final_rankings,       \* AgentState.final_rankings
    iterations,           \* AgentState.iterations
    max_iterations,       \* AgentState.max_iterations
    goal_met,             \* AgentState.goal_met
    min_candidates,       \* AgentState.min_candidates
    min_fit_score,        \* AgentState.min_fit_score
    tools_used,           \* AgentState.tools_used
    execution_log,        \* AgentState.execution_log
    total_execution_time, \* AgentState.total_execution_time
    decision,             \* the AgentDecision of the current iteration
    result,               \* the ToolResult of the last executed tool
    proposals             \* history: the decision of every iteration so far

vars == <<pc, candidates, enriched_candidates, final_rankings, iterations,
          max_iterations, goal_met, min_candidates, min_fit_score, tools_used,
          execution_log, total_execution_time, decision, result, proposals>>

run_state == <<candidates, enriched_candidates, final_rankings>>
thresholds == <<max_iterations, min_candidates, min_fit_score>>
accounting == <<tools_used, execution_log, total_execution_time>>

\* ---------------------------------------------------------------- registry
\* self.tools of the orchestrator
tools == {"search_candidates", "analyze_github", "get_personality",
          "rank_candidates"}

\* members of the ToolName enumeration
ToolName == {"search_candidates", "analyze_github", "get_personality",
             "rank_candidates", "expand_search", "finish"}

\* names a backend may put in "tool_name": the enumeration and a stray name
ProposedNames == ToolName \cup {"bogus_tool"}

AgentDecision(name, why, conf) ==
    [tool_name |-> name, reasoning |-> why, confidence |-> conf]

NoDecision == AgentDecision("", "", "num")

ToolResult(name, ok, t) ==
    [tool_name |-> name, success |-> ok, execution_time |-> t]

NoResult == ToolResult("", FALSE, 0)

\* ---------------------------------------------------------------- AgentState
\* c.get("fit_score", 0)
FitOrZero(c) == IF c.fit_score.kind = "absent" THEN 0 ELSE c.fit_score.val

\* the comparison c.get("fit_score", 0) >= min_fit_score raises TypeError
\* when the stored value is None
check_goal_raises(rankings) ==
    \E i \in DOMAIN rankings : rankings[i].fit_score.kind = "None"

\* faulty variant of high_quality: a strict comparison with the threshold
high_quality_strict(rankings) ==
    {i \in DOMAIN rankings : FitOrZero(rankings[i]) > min_fit_score}

high_quality(rankings) ==
    {i \in DOMAIN rankings : FitOrZero(rankings[i]) >= min_fit_score}

\* faulty variant of check_goal: one qualifying entry more than asked for
check_goal_one_more(rankings) ==
    IF rankings = <<>>
    THEN FALSE
    ELSE Cardinality(high_quality(rankings)) > min_candidates

check_goal(rankings) ==
    IF rankings = <<>>
    THEN FALSE
    ELSE Cardinality(high_quality(rankings)) >= min_candidates

\* faulty variant of should_continue: the iteration bound is off by one
should_continue_off_by_one ==
    IF goal_met THEN FALSE
    ELSE IF iterations > max_iterations THEN FALSE
    ELSE TRUE

should_continue ==
    IF goal_met THEN FALSE
    ELSE IF iterations >= max_iterations THEN FALSE
    ELSE TRUE

\* add_execution_log: the new values of the three accounting fields
LogEntry(d, r) ==
    [iteration |-> iterations, tool |-> d.tool_name, reasoning |-> d.reasoning,
     success |-> r.success, execution_time |-> r.execution_time]

\* faulty variant of add_execution_log: a failed call leaves no entry
add_execution_log_skips_failures(d, r) ==
    IF r.success
    THEN /\ execution_log' = Append(execution_log, LogEntry(d, r))
         /\ tools_used' = Append(tools_used, d.tool_name)
         /\ total_execution_time' = total_execution_time + r.execution_time
    ELSE UNCHANGED accounting

add_execution_log(d, r) ==
    /\ execution_log' = Append(execution_log, LogEntry(d, r))
    /\ tools_used' = Append(tools_used, d.tool_name)
    /\ total_execution_time' = total_execution_time + r.execution_time

\* ---------------------------------------------------------------- Init
Init ==
    /\ pc = "while"
    /\ candidates = <<>>
    /\ enriched_candidates = <<>>
    /\ final_rankings = <<>>
    /\ iterations = 0
    /\ max_iterations \in 0..MaxIter
    /\ goal_met = FALSE
    /\ min_candidates \in 0..MaxMinCand
    /\ min_fit_score \in MinFitScores
    /\ tools_used = <<>>
    /\ execution_log = <<>>
    /\ total_execution_time = 0
    /\ decision = NoDecision
    /\ result = NoResult
    /\ proposals = <<>>

\* ---------------------------------------------------------------- the loop
\* while state.should_continue(): state.iterations += 1
EnterIteration ==
    /\ pc = "while"
    /\ should_continue
    /\ iterations' = iterations + 1
    /\ pc' = "decide"
    /\ UNCHANGED <<run_state, thresholds, accounting, goal_met, decision,
                   result, proposals>>

\* the while condition is false: the summary is printed, the report returned
ReturnReport ==
    /\ pc = "while"
    /\ ~should_continue
    /\ pc' = "done"
    /\ UNCHANGED <<run_state, thresholds, accounting, iterations, goal_met,
                   decision, result, proposals>>

\* ---------------------------------------------------------------- backend
\* _fallback_decision of DeepSeekRouter and of LlamaRouter (same rules)
_fallback_decision ==
    IF candidates = <<>>
    THEN AgentDecision("search_candidates", "Fallback: No candidates yet", "num")
    ELSE IF candidates # <<>> /\ final_rankings = <<>>
    THEN AgentDecision("rank_candidates", "Fallback: Need ranking", "num")
    ELSE IF final_rankings = <<>>
    THEN AgentDecision("rank_candidates", "Fallback: Need ranking", "num")
    ELSE AgentDecision("finish", "Fallback: Done", "num")

\* values json.loads may deliver under "confidence": a number, or null / a
\* string, which the format spec :.2f of the orchestrator rejects
Confidences == {"num", "null"}

\* print(f"   Confidence: {decision.confidence:.2f}") raises on a non-number
AfterDecision(d) ==
    /\ decision' = d
    /\ proposals' = Append(proposals, d)
    /\ pc' = IF d.confidence = "num" THEN "dispatch" ELSE "raised"
    /\ UNCHANGED <<run_state, thresholds, accounting, iterations, goal_met,
                   result>>

\* decide_next_action, the backend answered with a parseable JSON object
DecideParsed ==
    /\ pc = "decide"
    /\ \E name \in ProposedNames, conf \in Confidences :
           AfterDecision(AgentDecision(name, "llm", conf))

\* decide_next_action, the call raised or the answer did not parse:
\* the except branch returns the rule-based decision
BackendFailures == {"raises", "unparseable"}

DecideFallback ==
    /\ pc = "decide"
    /\ \E cause \in BackendFailures : AfterDecision(_fallback_decision)

\* decide_next_action, the backend never answers: the call has no timeout and
\* the loop does not bound the await, so find_candidates stays suspended
DecideNoAnswer ==
    /\ pc = "decide"
    /\ pc' = "awaiting"
    /\ UNCHANGED <<run_state, thresholds, accounting, iterations, goal_met,
                   decision, result, proposals>>

\* ---------------------------------------------------------------- dispatch
\* faulty variant of Finish: an explicit stop is reported as a met goal
Finish_reports_goal_met ==
    /\ pc = "dispatch"
    /\ decision.tool_name = "finish"
    /\ pc' = "done"
    /\ goal_met' = TRUE
    /\ UNCHANGED <<run_state, thresholds, accounting, iterations, decision,
                   result, proposals>>

\* if decision.tool_name == "finish": goal_met = check_goal(); break
Finish ==
    /\ pc = "dispatch"
    /\ decision.tool_name = "finish"
    /\ IF check_goal_raises(final_rankings)
       THEN pc' = "raised" /\ UNCHANGED goal_met
       ELSE pc' = "done" /\ goal_met' = check_goal(final_rankings)
    /\ UNCHANGED <<run_state, thresholds, accounting, iterations, decision,
                   result, proposals>>

\* tool = self.tools.get(name); if not tool: print(...); continue
UnknownTool ==
    /\ pc = "dispatch"
    /\ decision.tool_name # "finish"
    /\ decision.tool_name \notin tools
    /\ pc' = "while"
    /\ UNCHANGED <<run_state, thresholds, accounting, iterations, goal_met,
                   decision, result, proposals>>

\* faulty variant of AfterExecute: the goal is not evaluated after the call
\* and the flag stays as it was before it
AfterExecute_no_goal_check(r, toolGoalMet) ==
    /\ result' = r
    /\ add_execution_log(decision, r)
    /\ pc' = "while"
    /\ goal_met' = goal_met
    /\ UNCHANGED <<thresholds, iterations, decision, proposals>>

\* the rest of the loop body once tool.execute returned r: add_execution_log,
\* then the goal check on the state the tool left (toolGoalMet is goal_met as
\* the tool left it)
AfterExecute(r, toolGoalMet) ==
    /\ result' = r
    /\ add_execution_log(decision, r)
    /\ IF check_goal_raises(final_rankings')
       THEN pc' = "raised" /\ goal_met' = toolGoalMet
       ELSE IF check_goal(final_rankings')
       THEN pc' = "done" /\ goal_met' = TRUE
       ELSE pc' = "while" /\ goal_met' = toolGoalMet
    /\ UNCHANGED <<thresholds, iterations, decision, proposals>>

\* ---------------------------------------------------------------- search
\* the record SearchCandidatesTool builds for a match with a profile
Candidate(sid) ==
    [student_id |-> sid,
     github_analyzed |-> FALSE, github_projects |-> "unset",
     personality_analyzed |-> FALSE, personality_data |-> "unset"]

\* faulty variant of enriched_matches: the seen_students test is left out
RECURSIVE enriched_matches_no_dedup(_, _, _)
enriched_matches_no_dedup(matches, seen_students, profiles) ==
    IF matches = <<>>
    THEN <<>>
    ELSE LET sid == Head(matches) IN
         (IF sid \in profiles THEN <<Candidate(sid)>> ELSE <<>>)
         \o enriched_matches_no_dedup(Tail(matches),
                                      seen_students \cup {sid}, profiles)

\* the for loop over matches: skip a student_id already seen, keep a match
\* only when its profile lookup returned data
RECURSIVE enriched_matches(_, _, _)
enriched_matches(matches, seen_students, profiles) ==
    IF matches = <<>>
    THEN <<>>
    ELSE LET sid == Head(matches) IN
         IF sid \in seen_students
         THEN enriched_matches(Tail(matches), seen_students, profiles)
         ELSE (IF sid \in profiles THEN <<Candidate(sid)>> ELSE <<>>)
              \o enriched_matches(Tail(matches), seen_students \cup {sid},
                                  profiles)

\* what the search provider may return: student ids, repeats included
MaxMatches == MaxCand + 1
Matches == UNION {[1..n -> StudentIds] : n \in 0..MaxMatches}

\* SearchCandidatesTool.execute returned success
ExecSearchOk ==
    /\ pc = "dispatch"
    /\ decision.tool_name = "search_candidates"
    /\ \E matches \in Matches, profiles \in SUBSET StudentIds,
          t \in Durations :
           /\ candidates' = enriched_matches(matches, {}, profiles)
           /\ UNCHANGED <<enriched_candidates, final_rankings>>
           /\ AfterExecute(ToolResult("search_candidates", TRUE, t), goal_met)

\* SearchCandidatesTool.execute caught an exception of the provider
ExecSearchFail ==
    /\ pc = "dispatch"
    /\ decision.tool_name = "search_candidates"
    /\ \E t \in Durations :
           /\ UNCHANGED run_state
           /\ AfterExecute(ToolResult("search_candidates", FALSE, t), goal_met)

\* ---------------------------------------------------------------- enrichment
\* what one per-candidate task returns under its payload key: the tasks catch
\* their own exceptions and return an empty payload
GithubPayloads == {"data", "empty"}
PersonalityPayloads == {"data", "None"}

\* the orders in which n concurrent tasks may complete
CompletionOrders(n) ==
    {order \in [1..n -> 1..n] :
        \A i, j \in 1..n : i # j => order[i] # order[j]}

\* the student ids of the tasks GitHubAnalysisTool.execute creates: one per
\* candidate without the github_analyzed flag
GithubTasks(cands) ==
    LET pending == SelectSeq(cands, LAMBDA c : ~c.github_analyzed)
    IN  [k \in DOMAIN pending |-> pending[k].student_id]

\* the tasks PersonalityAnalysisTool.execute creates
PersonalityTasks(cands) ==
    LET pending == SelectSeq(cands, LAMBDA c : ~c.personality_analyzed)
    IN  [k \in DOMAIN pending |-> pending[k].student_id]

\* the results of the joined tasks, listed in the order the tasks completed
\* in; each task returns its own student_id with its payload
Gathered(tasks, payload, order) ==
    [k \in DOMAIN tasks |->
        [student_id |-> tasks[order[k]], payload |-> payload[tasks[order[k]]]]]

\* faulty variant of enriched_dict: every key gets the result that came first
enriched_dict_first_result(enriched) ==
    [sid \in {enriched[k].student_id : k \in DOMAIN enriched} |->
        enriched[1].payload]

\* {e["student_id"]: e for e in enriched}: the results keyed by student_id, a
\* later result of the list replacing an earlier one under the same key
enriched_dict(enriched) ==
    [sid \in {enriched[k].student_id : k \in DOMAIN enriched} |->
        LET last == CHOOSE k \in DOMAIN enriched :
                        /\ enriched[k].student_id = sid
                        /\ \A m \in DOMAIN enriched :
                               enriched[m].student_id = sid => m <= k
        IN  enriched[last].payload]

\* faulty variant of GithubMerge: the flag is set on delivered payloads only
GithubMerge_flags_successes(cands, payload) ==
    [i \in DOMAIN cands |->
        IF ~cands[i].github_analyzed
        THEN [cands[i] EXCEPT
                 !.github_projects = payload[cands[i].student_id],
                 !.github_analyzed = (payload[cands[i].student_id] = "data")]
        ELSE cands[i]]

\* faulty variant of GithubMerge: one failing lookup cancels the whole batch
GithubMerge_cancels_siblings(cands, payload) ==
    IF \E i \in DOMAIN cands :
           ~cands[i].github_analyzed /\ payload[cands[i].student_id] = "empty"
    THEN cands
    ELSE [i \in DOMAIN cands |->
             IF ~cands[i].github_analyzed
             THEN [cands[i] EXCEPT
                      !.github_projects = payload[cands[i].student_id],
                      !.github_analyzed = TRUE]
             ELSE cands[i]]

\* GitHubAnalysisTool.execute: merge of the gathered results into candidates
GithubMerge(cands, payload) ==
    [i \in DOMAIN cands |->
        IF ~cands[i].github_analyzed
        THEN [cands[i] EXCEPT !.github_projects = payload[cands[i].student_id],
                              !.github_analyzed = TRUE]
        ELSE cands[i]]

GithubAnalyzed(c) == c.github_analyzed

ExecGithubOk ==
    /\ pc = "dispatch"
    /\ decision.tool_name = "analyze_github"
    /\ \E payload \in [StudentIds -> GithubPayloads], t \in Durations,
          order \in CompletionOrders(Len(GithubTasks(candidates))) :
           /\ candidates' =
                  GithubMerge(candidates,
                              enriched_dict(Gathered(GithubTasks(candidates),
                                                     payload, order)))
           /\ enriched_candidates' = SelectSeq(candidates', GithubAnalyzed)
           /\ UNCHANGED final_rankings
           /\ AfterExecute(ToolResult("analyze_github", TRUE, t), goal_met)

\* GitHubAnalysisTool.execute: embedder.generate_embedding raised
ExecGithubFail ==
    /\ pc = "dispatch"
    /\ decision.tool_name = "analyze_github"
    /\ \E t \in Durations :
           /\ UNCHANGED run_state
           /\ AfterExecute(ToolResult("analyze_github", FALSE, t), goal_met)

\* PersonalityAnalysisTool.execute: merge of the gathered results
PersonalityMerge(cands, payload) ==
    [i \in DOMAIN cands |->
        IF ~cands[i].personality_analyzed
        THEN [cands[i] EXCEPT
                 !.personality_data = payload[cands[i].student_id],
                 !.personality_analyzed = TRUE]
        ELSE cands[i]]

AnyAnalyzed(c) == c.github_analyzed \/ c.personality_analyzed

ExecPersonality ==
    /\ pc = "dispatch"
    /\ decision.tool_name = "get_personality"
    /\ \E payload \in [StudentIds -> PersonalityPayloads], t \in Durations,
          order \in CompletionOrders(Len(PersonalityTasks(candidates))) :
           /\ candidates' =
                  PersonalityMerge(candidates,
                      enriched_dict(Gathered(PersonalityTasks(candidates),
                                             payload, order)))
           /\ enriched_candidates' = SelectSeq(candidates', AnyAnalyzed)
           /\ UNCHANGED final_rankings
           /\ AfterExecute(ToolResult("get_personality", TRUE, t), goal_met)

\* ---------------------------------------------------------------- ranking
\* llm_ranking.get("fit_score", 5)
DefaultFitScore == 5

\* one element of the list rank_candidates returns: a JSON object (with any
\* of its keys missing or null) or something that is not an object
LlmDict(fit, bullets) ==
    [kind |-> "dict", fit_score |-> fit, evaluation_bullets |-> bullets]

NotADict == [kind |-> "other", fit_score |-> Absent,
             evaluation_bullets |-> "absent"]

LlmEntries ==
    {LlmDict(Num(n), "given") : n \in FitScores}
    \cup {LlmDict(Absent, "absent"), LlmDict(NoneValue, "given"), NotADict}

MaxRanked == MaxCand + 1
LlmRankings == UNION {[1..n -> LlmEntries] : n \in 0..MaxRanked}

\* rank_candidates of both routers returns the candidates themselves when the
\* call raises or the parsed JSON is not a list; seen through .get they are
\* objects with no ranking key
AsRankings(cands) == [i \in DOMAIN cands |-> LlmDict(Absent, "absent")]

\* the body of the for loop of RankingTool.execute for candidate i
Merged(cands, llm_rankings, i) ==
    IF i <= Len(llm_rankings)
    THEN [student_id |-> cands[i].student_id,
          github_analyzed |-> cands[i].github_analyzed,
          github_projects |-> cands[i].github_projects,
          personality_analyzed |-> cands[i].personality_analyzed,
          personality_data |-> cands[i].personality_data,
          fit_score |-> IF llm_rankings[i].fit_score.kind = "absent"
                        THEN Num(DefaultFitScore)
                        ELSE llm_rankings[i].fit_score,
          evaluation_bullets |->
              IF llm_rankings[i].evaluation_bullets = "absent"
              THEN "empty" ELSE llm_rankings[i].evaluation_bullets]
    ELSE [student_id |-> cands[i].student_id,
          github_analyzed |-> cands[i].github_analyzed,
          github_projects |-> cands[i].github_projects,
          personality_analyzed |-> cands[i].personality_analyzed,
          personality_data |-> cands[i].personality_data,
          fit_score |-> Absent,
          evaluation_bullets |-> "absent"]

\* faulty variant of ranked_candidates: one entry per element the backend
\* returned that pairs with a candidate
ranked_candidates_zipped(cands, llm_rankings) ==
    [i \in DOMAIN cands \cap DOMAIN llm_rankings |->
        Merged(cands, llm_rankings, i)]

\* faulty variant of ranked_candidates: the merged entries come out in the
\* reverse of the candidates' order
ranked_candidates_reversed(cands, llm_rankings) ==
    [i \in DOMAIN cands |-> Merged(cands, llm_rankings, Len(cands) + 1 - i)]

ranked_candidates(cands, llm_rankings) ==
    [i \in DOMAIN cands |-> Merged(cands, llm_rankings, i)]

\* llm_ranking.get raises AttributeError on an element that is not an object;
\* only the elements paired with a candidate are touched
MergeRaises(cands, llm_rankings) ==
    \E i \in DOMAIN cands :
        i <= Len(llm_rankings) /\ llm_rankings[i].kind = "other"

\* faulty variant of RankWith: a ranking that succeeded marks the goal as met
RankWith_marks_goal_met(llm_rankings, t) ==
    IF MergeRaises(candidates, llm_rankings)
    THEN /\ UNCHANGED run_state
         /\ AfterExecute(ToolResult("rank_candidates", FALSE, t), goal_met)
    ELSE /\ final_rankings' = ranked_candidates(candidates, llm_rankings)
         /\ UNCHANGED <<candidates, enriched_candidates>>
         /\ IF check_goal_raises(final_rankings')
            THEN AfterExecute(ToolResult("rank_candidates", FALSE, t),
                              goal_met)
            ELSE AfterExecute(ToolResult("rank_candidates", TRUE, t), TRUE)

\* RankingTool.execute once rank_candidates returned llm_rankings
RankWith(llm_rankings, t) ==
    IF MergeRaises(candidates, llm_rankings)
    THEN \* the except branch, before state.final_rankings was assigned
         /\ UNCHANGED run_state
         /\ AfterExecute(ToolResult("rank_candidates", FALSE, t), goal_met)
    ELSE /\ final_rankings' = ranked_candidates(candidates, llm_rankings)
         /\ UNCHANGED <<candidates, enriched_candidates>>
         /\ IF check_goal_raises(final_rankings')
            THEN \* state.goal_met = state.check_goal() raised: the except
                 \* branch, after state.final_rankings was assigned
                 AfterExecute(ToolResult("rank_candidates", FALSE, t),
                              goal_met)
            ELSE AfterExecute(ToolResult("rank_candidates", TRUE, t),
                              check_goal(final_rankings'))

\* the backend answered the ranking prompt with a JSON list
ExecRankParsed ==
    /\ pc = "dispatch"
    /\ decision.tool_name = "rank_candidates"
    /\ \E llm_rankings \in LlmRankings, t \in Durations :
           RankWith(llm_rankings, t)

\* the ranking call raised or its answer was not a JSON list
ExecRankBackendFailed ==
    /\ pc = "dispatch"
    /\ decision.tool_name = "rank_candidates"
    /\ \E t \in Durations : RankWith(AsRankings(candidates), t)

\* parameters.get("temperature", 0.7) raised: the backend put something that
\* is no object under "parameters"; the except branch, nothing was assigned
ExecRankBadParameters ==
    /\ pc = "dispatch"
    /\ decision.tool_name = "rank_candidates"
    /\ \E t \in Durations :
           /\ UNCHANGED run_state
           /\ AfterExecute(ToolResult("rank_candidates", FALSE, t), goal_met)

\* ---------------------------------------------------------------- spec
Next ==
    \/ EnterIteration
    \/ ReturnReport
    \/ DecideParsed
    \/ DecideFallback
    \/ DecideNoAnswer
    \/ Finish
    \/ UnknownTool
    \/ ExecSearchOk
    \/ ExecSearchFail
    \/ ExecGithubOk
    \/ ExecGithubFail
    \/ ExecPersonality
    \/ ExecRankParsed
    \/ ExecRankBackendFailed
    \/ ExecRankBadParameters

Spec == Init /\ [][Next]_vars

\* the scheduler runs find_candidates whenever it can take a step
FairSpec == Spec /\ WF_vars(Next)

\* the runs in which every decide_next_action call comes back (with a
\* proposal, an exception or an unparseable answer)
NextAnswered ==
    \/ EnterIteration
    \/ ReturnReport
    \/ DecideParsed
    \/ DecideFallback
    \/ Finish
    \/ UnknownTool
    \/ ExecSearchOk
    \/ ExecSearchFail
    \/ ExecGithubOk
    \/ ExecGithubFail
    \/ ExecPersonality
    \/ ExecRankParsed
    \/ ExecRankBackendFailed
    \/ ExecRankBadParameters

FairSpecAnswered == Init /\ [][NextAnswered]_vars /\ WF_vars(NextAnswered)

TypeOK ==
    /\ pc \in {"while", "decide", "dispatch", "awaiting", "done", "raised"}
    /\ iterations \in 0..MaxIter
    /\ goal_met \in BOOLEAN
    /\ Len(candidates) <= MaxCand

\* ---------------------------------------------------------------- outcomes
\* find_candidates has left the loop: it returned its report, or an exception
\* left it
Returned == pc = "done"
Raised == pc = "raised"
Terminated == Returned \/ Raised

\* the loop was left by the break of the "finish" branch
StoppedByDecision == Returned /\ decision.tool_name = "finish"

Outcome ==
    IF ~Returned THEN "RUNNING"
    ELSE IF StoppedByDecision THEN "STOPPED_BY_DECISION"
    ELSE IF goal_met THEN "GOAL_MET"
    ELSE "EXHAUSTED"

\* check_goal() returns True on the current state
GoalPredicateTrue ==
    ~check_goal_raises(final_rankings) /\ check_goal(final_rankings)

\* the count the goal predicate is specified by: entries whose fit_score is a
\* number at or above the threshold
QualifiedCount ==
    Cardinality({i \in DOMAIN final_rankings :
                    /\ final_rankings[i].fit_score.kind = "num"
                    /\ final_rankings[i].fit_score.val >= min_fit_score})

\* ---------------------------------------------------------------- C1
\* C1: for max_iterations = N > 0 and every sequence of answered backend
\* proposals and capability outcomes, the loop terminates, and at termination
\* iterations <= N  (checked under FairSpecAnswered)
C1_Terminates ==
    (max_iterations > 0) =>
        /\ <>Terminated
        /\ [](Terminated => iterations <= max_iterations)

\* a run that used all of its N = MaxIter iterations and returned
C1_Witness ==
    /\ Returned
    /\ max_iterations = MaxIter
    /\ iterations = max_iterations
    /\ ~goal_met

\* ---------------------------------------------------------------- C2
\* C2 as stated: check_goal() is true iff the number of entries with
\* fit_score >= min_fit_score is at least min_candidates, the empty
\* final_rankings included
C2_GoalIffCount_Original ==
    GoalPredicateTrue <=> (QualifiedCount >= min_candidates)

\* C2 amended: check_goal() returns true iff final_rankings is non-empty, no
\* entry holds a null fit_score, and the number of entries with
\* fit_score >= min_fit_score is at least min_candidates
C2_GoalIffNonEmptyCount ==
    GoalPredicateTrue <=>
        /\ final_rankings # <<>>
        /\ \A i \in DOMAIN final_rankings :
               final_rankings[i].fit_score.kind # "None"
        /\ QualifiedCount >= min_candidates

\* two ranked candidates, one at the threshold exactly, one below it
C2_Witness ==
    /\ Len(final_rankings) = 2
    /\ min_candidates = 1
    /\ QualifiedCount = 1
    /\ \E i \in DOMAIN final_rankings :
           final_rankings[i].fit_score = Num(min_fit_score)
    /\ GoalPredicateTrue

\* ---------------------------------------------------------------- C3
\* every decision of the run so far came from the rule-based fallback
AllFallback ==
    \A i \in DOMAIN proposals : proposals[i].reasoning # "llm"

\* C3: when the backend raises on every iteration and search yielded a
\* candidate, the run that returns ends GOAL_MET or EXHAUSTED, never
\* STOPPED_BY_DECISION
C3_FallbackNeverStops ==
    (Returned /\ AllFallback /\ candidates # <<>>) =>
        Outcome \in {"GOAL_MET", "EXHAUSTED"}

\* ---------------------------------------------------------------- C4
FinishProposals ==
    Cardinality({i \in DOMAIN proposals : proposals[i].tool_name = "finish"})

\* C4: at termination len(decision_trace) <= iterations, and it equals
\* iterations minus the number of "finish" proposals
C4_TraceIterations ==
    Returned =>
        /\ Len(execution_log) <= iterations
        /\ Len(execution_log) = iterations - FinishProposals

\* ---------------------------------------------------------------- C5
\* C5: on a "finish" proposal the loop ends in the same iteration, executes no
\* capability, appends no trace entry, and sets goal_met to the value of the
\* goal predicate, whether that value is true or false
C5_FinishStops ==
    [][(pc = "dispatch" /\ decision.tool_name = "finish") =>
          /\ pc' = "done"
          /\ iterations' = iterations
          /\ UNCHANGED <<run_state, accounting, result>>
          /\ goal_met' = GoalPredicateTrue]_vars

\* a stop by decision honoured although the predicate is false on a ranked list
C5_Witness ==
    /\ StoppedByDecision
    /\ final_rankings # <<>>
    /\ ~GoalPredicateTrue
    /\ ~goal_met

\* ---------------------------------------------------------------- C6
UnknownProposal ==
    /\ pc = "dispatch"
    /\ decision.tool_name # "finish"
    /\ decision.tool_name \notin tools

\* C6: on an unknown name the loop appends a no-op trace entry for the
\* iteration, leaves candidates, enriched_candidates and final_rankings
\* unchanged, and continues with the next iteration
C6_UnknownLogged ==
    [][UnknownProposal =>
          /\ Len(execution_log') = Len(execution_log) + 1
          /\ execution_log'[Len(execution_log')].iteration = iterations
          /\ UNCHANGED run_state
          /\ pc' = "while"]_vars

\* ---------------------------------------------------------------- C7
\* C7: an executed capability appends exactly one trace entry carrying its
\* success flag and duration, and a capability that returns success = false
\* does not end the loop
C7_ExecutionLoggedLoopGoesOn ==
    [][(pc = "dispatch" /\ decision.tool_name \in tools) =>
          /\ Len(execution_log') = Len(execution_log) + 1
          /\ SubSeq(execution_log', 1, Len(execution_log)) = execution_log
          /\ execution_log'[Len(execution_log')].tool = decision.tool_name
          /\ execution_log'[Len(execution_log')].success = result'.success
          /\ execution_log'[Len(execution_log')].execution_time
                 = result'.execution_time
          /\ (~result'.success => pc' = "while")]_vars

\* ---------------------------------------------------------------- C8
\* C8: for every backend response and capability outcome find_candidates
\* returns a report, no exception leaves the loop
C8_NothingEscapes == ~Raised

\* ---------------------------------------------------------------- C9
\* C9: a backend call that never answers is treated like a malformed answer,
\* and the run still reaches a terminal state  (checked under FairSpec)
C9_NoAnswerStillTerminates == (pc = "awaiting") ~> Terminated

\* ---------------------------------------------------------------- C10
\* C10: right after a ranking call that returned success = true,
\* len(final_rankings) = len(candidates), whatever the length of the list the
\* backend returned
C10_NoCandidateLoss ==
    [][(pc = "dispatch" /\ decision.tool_name = "rank_candidates"
        /\ result'.success) =>
          Len(final_rankings') = Len(candidates')]_vars

\* a successful ranking of two candidates from a backend list of length one
C10_Witness ==
    /\ result = ToolResult("rank_candidates", TRUE, result.execution_time)
    /\ decision.tool_name = "rank_candidates"
    /\ Len(candidates) = 2
    /\ Len(final_rankings) = 2
    /\ final_rankings[1].fit_score.kind = "num"
    /\ final_rankings[2].fit_score = Absent

\* ---------------------------------------------------------------- C11
\* the backend computed no score for candidate i: its list is too short or
\* the entry has no fit_score key
NoScoreComputed(llm_rankings, i) ==
    \/ i > Len(llm_rankings)
    \/ llm_rankings[i].fit_score.kind = "absent"

\* the step is a ranking call that returned success with this backend list
RankedWith(llm_rankings) ==
    /\ pc = "dispatch"
    /\ decision.tool_name = "rank_candidates"
    /\ ~MergeRaises(candidates, llm_rankings)
    /\ final_rankings' = ranked_candidates(candidates, llm_rankings)
    /\ result'.success

\* C11: after a successful ranking call every candidate for which the backend
\* computed no score is present in final_rankings, carries the neutral default
\* fit score and carries a rationale that notes the missing data.
C11_UnscoredKeptWithDefault ==
    [][\A llm_rankings \in LlmRankings :
          RankedWith(llm_rankings) =>
              \A i \in DOMAIN candidates :
                  NoScoreComputed(llm_rankings, i) =>
                      /\ i \in DOMAIN final_rankings'
                      /\ final_rankings'[i].student_id
                             = candidates[i].student_id
                      /\ final_rankings'[i].fit_score = Num(DefaultFitScore)
                      /\ final_rankings'[i].evaluation_bullets = "given"]_vars

\* ---------------------------------------------------------------- C12
\* the step is a call of RankingTool.execute
RankingCall ==
    /\ pc = "dispatch"
    /\ decision.tool_name = "rank_candidates"
    /\ result'.tool_name = "rank_candidates"
    /\ Len(execution_log') = Len(execution_log) + 1

\* C12: a ranking call that reports success = false leaves final_rankings and
\* goal_met exactly as they were before the call, and final_rankings only ever
\* changes by the wholesale replacement of a successful ranking call.
C12_FailedRankingChangesNothing ==
    [][/\ (RankingCall /\ ~result'.success) =>
              /\ final_rankings' = final_rankings
              /\ goal_met' = goal_met
       /\ final_rankings' # final_rankings =>
              (RankingCall /\ result'.success)]_vars

\* ---------------------------------------------------------------- C13
\* the step is an analyze_github call whose per-candidate lookups returned
\* payload, the lookup of at least one candidate having failed
GithubCallOneFails(payload) ==
    /\ pc = "dispatch"
    /\ decision.tool_name = "analyze_github"
    /\ candidates' = GithubMerge(candidates, payload)
    /\ \E i \in DOMAIN candidates :
           /\ ~candidates[i].github_analyzed
           /\ payload[candidates[i].student_id] = "empty"

\* the same for get_personality
PersonalityCallOneFails(payload) ==
    /\ pc = "dispatch"
    /\ decision.tool_name = "get_personality"
    /\ candidates' = PersonalityMerge(candidates, payload)
    /\ \E i \in DOMAIN candidates :
           /\ ~candidates[i].personality_analyzed
           /\ payload[candidates[i].student_id] = "None"

\* C13: when the lookup of one candidate fails during the enrichment of
\* several candidates, every other candidate whose lookup ran still receives
\* its own payload and the call reports success = true.
C13_PartialEnrichment ==
    [][/\ \A payload \in [StudentIds -> GithubPayloads] :
              GithubCallOneFails(payload) =>
                  /\ result'.success
                  /\ Len(candidates') = Len(candidates)
                  /\ \A j \in DOMAIN candidates :
                         ~candidates[j].github_analyzed =>
                             /\ candidates'[j].github_analyzed
                             /\ candidates'[j].github_projects
                                    = payload[candidates[j].student_id]
       /\ \A payload \in [StudentIds -> PersonalityPayloads] :
              PersonalityCallOneFails(payload) =>
                  /\ result'.success
                  /\ Len(candidates') = Len(candidates)
                  /\ \A j \in DOMAIN candidates :
                         ~candidates[j].personality_analyzed =>
                             /\ candidates'[j].personality_analyzed
                             /\ candidates'[j].personality_data
                                    = payload[candidates[j].student_id]]_vars

\* both enrichment calls ran over two candidates, each with one failed lookup
\* and one delivered payload
C13_Witness ==
    /\ result = ToolResult("get_personality", TRUE, result.execution_time)
    /\ Len(candidates) = 2
    /\ candidates[1].github_analyzed /\ candidates[2].github_analyzed
    /\ candidates[1].github_projects = "empty"
    /\ candidates[2].github_projects = "data"
    /\ candidates[1].personality_analyzed /\ candidates[2].personality_analyzed
    /\ candidates[1].personality_data = "data"
    /\ candidates[2].personality_data = "None"

\* ---------------------------------------------------------------- C14
\* C14: in every Run State the identity keys of the entries of candidates are
\* pairwise distinct.
C14_DistinctKeys ==
    \A i, j \in DOMAIN candidates :
        i # j => candidates[i].student_id # candidates[j].student_id

\* a search has filled candidates with as many records as there are keys
C14_Witness ==
    /\ result = ToolResult("search_candidates", TRUE, result.execution_time)
    /\ Len(candidates) = MaxCand
    /\ candidates[1].student_id > candidates[2].student_id

\* ---------------------------------------------------------------- C15
\* the step is a call of SearchCandidatesTool.execute that returned success
SearchCall ==
    /\ pc = "dispatch"
    /\ decision.tool_name = "search_candidates"
    /\ result' = ToolResult("search_candidates", TRUE, result'.execution_time)
    /\ Len(execution_log') = Len(execution_log) + 1

\* C15: when a later search returns a candidate whose identity key is already
\* in candidates, the existing record is merged and not discarded: the
\* enrichment payloads and per-type flags set by earlier enrichment calls are
\* still on the record after the search.
C15_SearchKeepsEnrichment ==
    [][SearchCall =>
          \A i \in DOMAIN candidates, j \in DOMAIN candidates' :
              candidates'[j].student_id = candidates[i].student_id =>
                  /\ candidates'[j].github_analyzed
                         = candidates[i].github_analyzed
                  /\ candidates'[j].github_projects
                         = candidates[i].github_projects
                  /\ candidates'[j].personality_analyzed
                         = candidates[i].personality_analyzed
                  /\ candidates'[j].personality_data
                         = candidates[i].personality_data]_vars

\* ---------------------------------------------------------------- C16
\* C16: in every reachable state of a run, after any sequence of search,
\* enrichment and ranking calls, final_rankings is no longer than candidates.
C16_RankingsWithinCandidates ==
    Len(final_rankings) <= Len(candidates)

\* ---------------------------------------------------------------- C17
\* the (goal_met, iterations) pair of the report
Report == <<goal_met, iterations>>

\* the pair every EXHAUSTED run returns under the current max_iterations: the
\* loop condition failed on iterations with the goal unmet
ExhaustedReport == <<FALSE, max_iterations>>

\* C17: the report's goal_met and iterations tell the three outcomes apart.
\* Two runs are compared through the pair itself: GOAL_MET reports goal_met
\* true, EXHAUSTED reports ExhaustedReport, so the claim holds exactly when no
\* run stopped by decision without meeting the goal returns a pair of the
\* other two outcomes.
C17_OutcomesToldApart ==
    /\ Outcome = "GOAL_MET" => goal_met
    /\ Outcome = "EXHAUSTED" => Report = ExhaustedReport
    /\ (StoppedByDecision /\ ~goal_met) =>
           /\ Report # ExhaustedReport
           /\ Report[1] # TRUE

\* ---------------------------------------------------------------- C18
\* C18: find_candidates called with max_iterations <= 0 raises before the
\* loop starts: no Run State is advanced, no backend call is made and no
\* report is returned.
C18_MisuseRaises ==
    max_iterations <= 0 =>
        /\ ~Returned
        /\ iterations = 0
        /\ proposals = <<>>

\* ---------------------------------------------------------------- C19
\* the last capability call of the run is a ranking call, made in the
\* current iteration: nothing has happened since it returned
JustRanked ==
    /\ execution_log # <<>>
    /\ execution_log[Len(execution_log)].tool = "rank_candidates"
    /\ execution_log[Len(execution_log)].iteration = iterations

\* the loop has ended GOAL_MET with one ranking per candidate
GoalMetReached ==
    /\ Outcome = "GOAL_MET"
    /\ goal_met
    /\ Len(final_rankings) = Len(candidates)

EveryIterationSearches ==
    /\ Len(proposals) = iterations
    /\ \A i \in DOMAIN proposals :
           /\ proposals[i].tool_name = "search_candidates"
           /\ proposals[i].confidence = "num"

\* C20: for max_iterations = N > 0, a run in which every iteration executes
\* the search capability, the search yielding no candidate or failing, ends
\* EXHAUSTED with exactly N trace entries, iterations = N, goal_met false and
\* final_rankings empty. Checked for every run of searches only, whatever
\* they yield.
C20_SearchOnlyExhausts ==
    (Terminated /\ max_iterations > 0 /\ EveryIterationSearches) =>
        /\ Outcome = "EXHAUSTED"
        /\ Len(execution_log) = max_iterations
        /\ iterations = max_iterations
        /\ ~goal_met
        /\ final_rankings = <<>>

\* the scenario: N = 3, three searches, one of them returning nothing and
\* one of them failing
C20_Witness ==
    /\ Returned
    /\ max_iterations = 3
    /\ EveryIterationSearches
    /\ candidates = <<>>
    /\ Len(execution_log) = 3
    /\ execution_log[1].success
    /\ ~execution_log[2].success
    /\ ~execution_log[3].success

\* ---------------------------------------------------------------- C21
\* the sequence of identity keys of a list of candidate records
Keys(records) == [i \in DOMAIN records |-> records[i].student_id]

\* the last capability call of the run is a ranking call of the current
\* iteration that returned success
JustRankedOk == JustRanked /\ execution_log[Len(execution_log)].success

\* C21: after every successful ranking call the sequence of identity keys in
\* final_rankings equals the sequence of identity keys in candidates at the
\* time ranking executed, whatever the enrichment calls before it delivered.
C21_RankingMirrorsOrder ==
    JustRankedOk => Keys(final_rankings) = Keys(candidates)

\* two candidates found in the order 2, 1, enriched with different outcomes,
\* then ranked
C21_Witness ==
    /\ JustRankedOk
    /\ Keys(candidates) = <<2, 1>>
    /\ candidates[1].github_projects = "empty"
    /\ candidates[2].github_projects = "data"
    /\ Len(final_rankings) = 2

\* ---------------------------------------------------------------- C22
\* no candidate carries an enrichment flag
NoneEnriched == \A i \in DOMAIN candidates : ~AnyAnalyzed(candidates[i])

\* the iteration in progress is the last one the loop allows
NearlyExhausted == iterations >= max_iterations

\* C22: on every Run State the loop asks a decision for, the rule-based
\* fallback follows the tie-break order: search when candidates is empty, an
\* enrichment capability when candidates exist but none is enriched, ranking
\* once enrichment has been attempted, and stop only once the goal predicate
\* is satisfied or the iterations are nearly exhausted.
C22_FallbackTieBreak ==
    pc = "decide" =>
        LET name == _fallback_decision.tool_name IN
        /\ candidates = <<>> => name = "search_candidates"
        /\ (candidates # <<>> /\ NoneEnriched /\ ~GoalPredicateTrue
            /\ ~NearlyExhausted) =>
               name \in {"analyze_github", "get_personality"}
        /\ (candidates # <<>> /\ ~NoneEnriched /\ ~GoalPredicateTrue
            /\ ~NearlyExhausted) => name = "rank_candidates"
        /\ name = "finish" => (GoalPredicateTrue \/ NearlyExhausted)

\* ---------------------------------------------------------------- C23
\* C23: in every reachable state of a run enriched_candidates is exactly the
\* sub-sequence of the current candidates that have at least one enrichment
\* flag set, github_analyzed or personality_analyzed.
C23_EnrichedDerived ==
    enriched_candidates = SelectSeq(candidates, AnyAnalyzed)

\* ---------------------------------------------------------------- C24
\* the step is a call of the named enrichment capability
EnrichmentCall(name) ==
    /\ pc = "dispatch"
    /\ decision.tool_name = name
    /\ result'.tool_name = name
    /\ Len(execution_log') = Len(execution_log) + 1

\* C24: when an enrichment capability returns, every candidate it attempted
\* (per-type flag unset at call time) has its per-type flag set, a delivered
\* or an empty payload and nothing else changed; a candidate whose flag was
\* already set is not attempted again and keeps its record; a call that
\* failed before it created its tasks attempted nobody.
C24_AttemptedAreFlagged ==
    [][/\ (EnrichmentCall("analyze_github") /\ result'.success) =>
              /\ Len(candidates') = Len(candidates)
              /\ \A i \in DOMAIN candidates :
                     IF candidates[i].github_analyzed
                     THEN candidates'[i] = candidates[i]
                     ELSE \E p \in GithubPayloads :
                              candidates'[i] =
                                  [candidates[i] EXCEPT
                                      !.github_analyzed = TRUE,
                                      !.github_projects = p]
       /\ (EnrichmentCall("get_personality") /\ result'.success) =>
              /\ Len(candidates') = Len(candidates)
              /\ \A i \in DOMAIN candidates :
                     IF candidates[i].personality_analyzed
                     THEN candidates'[i] = candidates[i]
                     ELSE \E p \in PersonalityPayloads :
                              candidates'[i] =
                                  [candidates[i] EXCEPT
                                      !.personality_analyzed = TRUE,
                                      !.personality_data = p]
       /\ ((EnrichmentCall("analyze_github")
            \/ EnrichmentCall("get_personality")) /\ ~result'.success) =>
              candidates' = candidates]_vars

\* a second analyze_github call found the candidate of a failed lookup
\* flagged and left its empty payload alone
C24_Witness ==
    /\ tools_used = <<"search_candidates", "analyze_github", "analyze_github">>
    /\ execution_log[2].success /\ execution_log[3].success
    /\ Len(candidates) = 2
    /\ candidates[1].github_analyzed /\ candidates[1].github_projects = "empty"
    /\ candidates[2].github_analyzed /\ candidates[2].github_projects = "data"

\* ---------------------------------------------------------------- C25
\* the value of state.goal_met when RankingTool.execute returns, the backend
\* having answered llm_rankings: the tool assigns check_goal() to it right
\* after it replaced final_rankings, unless it left through its except branch
goal_met_at_return(llm_rankings) ==
    IF MergeRaises(candidates, llm_rankings)
    THEN goal_met
    ELSE IF check_goal_raises(ranked_candidates(candidates, llm_rankings))
    THEN goal_met
    ELSE check_goal(ranked_candidates(candidates, llm_rankings))

\* C25: goal_met is written only by the orchestration loop: the execute of
\* every capability, the ranking capability included, returns with goal_met
\* as it was when the capability was called.
C25_ToolsLeaveGoalMet ==
    [][/\ \A llm_rankings \in LlmRankings :
              (/\ RankingCall
               /\ \/ MergeRaises(candidates, llm_rankings)
                  \/ final_rankings'
                         = ranked_candidates(candidates, llm_rankings))
              => goal_met_at_return(llm_rankings) = goal_met
       /\ goal_met' # goal_met =>
              \/ pc = "dispatch" /\ decision.tool_name = "finish"
              \/ pc = "dispatch" /\ pc' = "done"]_vars

\* ---------------------------------------------------------------- C26
\* which candidate each element of the backend's list is about, the backend
\* having returned one element per candidate in an order of its own; the
\* tool never reads it
Abouts(llm_rankings) ==
    {about \in [DOMAIN llm_rankings -> StudentIds] :
        /\ Len(llm_rankings) = Len(candidates)
        /\ \A i \in DOMAIN candidates :
               \E j \in DOMAIN llm_rankings :
                   about[j] = candidates[i].student_id}

\* C26: after a successful ranking call the fit_score merged onto each
\* final_rankings entry is the score the backend returned for that same
\* candidate, also when the backend lists its entries in an order different
\* from state.candidates.
C26_ScoreOfSameCandidate ==
    [][\A llm_rankings \in LlmRankings :
          RankedWith(llm_rankings) =>
              \A about \in Abouts(llm_rankings) :
                  \A i \in DOMAIN final_rankings', j \in DOMAIN llm_rankings :
                      (/\ about[j] = final_rankings'[i].student_id
                       /\ llm_rankings[j].fit_score.kind = "num")
                      => final_rankings'[i].fit_score
                             = llm_rankings[j].fit_score]_vars

\* ---------------------------------------------------------------- C27
\* the loop is at a decision point: it asks for a decision or dispatches one
DecisionPoint == pc \in {"decide", "awaiting", "dispatch"}

\* C27: at every decision point of the loop the goal predicate is false on
\* the current state, so every run that terminates because "finish" was
\* proposed returns goal_met false.
C27_FinishNeverMeetsGoal ==
    /\ DecisionPoint =>
           /\ ~check_goal_raises(final_rankings)
           /\ ~check_goal(final_rankings)
           /\ ~goal_met
    /\ StoppedByDecision => ~goal_met

\* the fallback proposed "finish" over rankings that qualify nobody
C27_Witness ==
    /\ StoppedByDecision
    /\ decision.reasoning = "Fallback: Done"
    /\ Len(final_rankings) = 2
    /\ QualifiedCount = 0
    /\ min_candidates = 1
    /\ ~goal_met

\* ---------------------------------------------------------------- C28
\* the loop is at the start of an iteration or the run has returned
IterationStartOrReturn == pc \in {"while", "decide"} \/ Returned

\* the step is a call of the search capability or of an enrichment capability
SearchOrEnrichmentCall ==
    /\ pc = "dispatch"
    /\ decision.tool_name
           \in {"search_candidates", "analyze_github", "get_personality"}
    /\ Len(execution_log') = Len(execution_log) + 1

\* C28: at the start of every iteration and at the return of every run, in
\* all three terminal states, goal_met equals check_goal() evaluated on the
\* current final_rankings; a search or enrichment call never changes the value
\* of the predicate.
C28_GoalMetIsPredicate ==
    /\ [](IterationStartOrReturn =>
              /\ ~check_goal_raises(final_rankings)
              /\ goal_met = check_goal(final_rankings))
    /\ [][SearchOrEnrichmentCall =>
              /\ check_goal_raises(final_rankings')
                     = check_goal_raises(final_rankings)
              /\ check_goal(final_rankings') = check_goal(final_rankings)]_vars

\* the three terminal states, each with rankings in place: the goal met by a
\* ranking, a stop by decision, and exhaustion after a later search
C28_Witness ==
    /\ Returned
    /\ final_rankings # <<>>
    /\ Outcome = "EXHAUSTED"
    /\ tools_used = <<"search_candidates", "rank_candidates",
                      "search_candidates">>
    /\ candidates = <<>>

\* ---------------------------------------------------------------- C29
\* what analyze_github leaves in candidates when its tasks returned payload
\* and completed in the given order
GithubOutcome(payload, order) ==
    GithubMerge(candidates,
                enriched_dict(Gathered(GithubTasks(candidates), payload,
                                       order)))

\* the same for get_personality
PersonalityOutcome(payload, order) ==
    PersonalityMerge(candidates,
                     enriched_dict(Gathered(PersonalityTasks(candidates),
                                            payload, order)))

\* C29: for each enrichment capability call the candidates' payloads and
\* flags and enriched_candidates after the call are the same for every
\* completion order of the per-candidate tasks: the results are merged by
\* identity key after all tasks have been joined.
C29_OrderIndependent ==
    [][/\ \A payload \in [StudentIds -> GithubPayloads] :
              \A order \in CompletionOrders(Len(GithubTasks(candidates))) :
                  (/\ EnrichmentCall("analyze_github")
                   /\ result'.success
                   /\ candidates' = GithubOutcome(payload, order))
                  => /\ \A other \in
                            CompletionOrders(Len(GithubTasks(candidates))) :
                            GithubOutcome(payload, other) = candidates'
                     /\ enriched_candidates'
                            = SelectSeq(candidates', GithubAnalyzed)
       /\ \A payload \in [StudentIds -> PersonalityPayloads] :
              \A order \in
                  CompletionOrders(Len(PersonalityTasks(candidates))) :
                  (/\ EnrichmentCall("get_personality")
                   /\ result'.success
                   /\ candidates' = PersonalityOutcome(payload, order))
                  => /\ \A other \in
                            CompletionOrders(
                                Len(PersonalityTasks(candidates))) :
                            PersonalityOutcome(payload, other) = candidates'
                     /\ enriched_candidates'
                            = SelectSeq(candidates', AnyAnalyzed)]_vars

\* two lookups with different outcomes were joined: the record found second
\* holds the delivered payload, the one found first the empty one
C29_Witness ==
    /\ tools_used = <<"search_candidates", "get_personality">>
    /\ Keys(candidates) = <<2, 1>>
    /\ candidates[1].personality_data = "None"
    /\ candidates[2].personality_data = "data"
    /\ enriched_candidates = candidates

\* ---------------------------------------------------------------- C30
\* the names the decision rules of the prompt tell the backend to use
PromptNames == {"search_candidates", "analyze_github", "get_personality",
                "rank_candidates", "expand_search", "finish"}

\* the iteration just ended was skipped: its proposal named no registered
\* capability and was not "finish"
IterationSkipped ==
    /\ pc = "while"
    /\ iterations > 0
    /\ Len(proposals) = iterations
    /\ proposals[iterations].tool_name \notin tools \cup {"finish"}

\* C30: every name of the ToolName enumeration other than "finish" and every
\* name the prompt's rules tell the backend to use, "expand_search" included,
\* is registered in the orchestrator's capability map: an iteration is skipped
\* as an unknown capability only on a name that is neither in the enumeration
\* nor in the prompt.
C30_PromptNamesRegistered ==
    IterationSkipped =>
        proposals[iterations].tool_name \notin ToolName \cup PromptNames

====
